---- MODULE Spec2Model ----
(***************************************************************************)
(* Model of the adjacency-list graph ALGraph<N, E, Ty> and of the derived  *)
(* operations of the GraphBase trait.                                      *)
(*                                                                         *)
(* The graph's fields are the variables nodes, edges, adj, curr_node and   *)
(* curr_edge; the type parameter Ty is the variable directed, fixed at     *)
(* construction.  Every trait method is an operator from a graph record    *)
(* to an outcome record holding the graph after the call, whether the call *)
(* returned (ok) or panicked, and the returned value.  A panic leaves the  *)
(* graph as the statements executed before the panic left it.              *)
(***************************************************************************)
EXTENDS Integers, Sequences, FiniteSets

\* ---- bounds of the exploration ----
MaxNodes == 2     \* add_node calls explored
MaxEdges == 2     \* add_edge calls that return
MaxAdj == 2       \* longest adj a graph is constructed with
MaxEntries == 3   \* entries over all adjacency lists
MaxMuts == 1      \* edge_mut calls explored

\* N and E are unconstrained type parameters: the code stores, clones and
\* returns payloads and never inspects them, so one payload of each stands
\* for all.
NodeData == {"a"}
EdgeData == {"x"}

\* handles a caller may pass: every index of adj and one past its end,
\* every key of edges and one past the counter
NodeArgs == 0..MaxAdj
EdgeArgs == 0..MaxEdges

VARIABLES
  nodes,      \* HashMap<NodeInd, N>
  edges,      \* HashMap<EdgeInd, Edge<E>>
  adj,        \* Vec<Vec<EdgeInd>>; adj[n + 1] here is adj[n] in the source
  curr_node,  \* NodeInd
  curr_edge,  \* EdgeInd
  directed,   \* Ty::is_directed()
  op,         \* name of the last call
  args,       \* its arguments
  ret,        \* its result: [ok, val]
  node_handles, \* handles returned by add_node, in order
  edge_handles, \* handles returned by add_edge, in order
  removed,      \* handles passed to a remove_edge that returned
  muts          \* number of edge_mut calls so far

graph == <<nodes, edges, adj, curr_node, curr_edge>>
vars == <<nodes, edges, adj, curr_node, curr_edge, directed, op, args, ret,
          node_handles, edge_handles, removed, muts>>

\* ---- results ----
Ok(v) == [ok |-> TRUE, val |-> v]
Panic(msg) == [ok |-> FALSE, val |-> msg]
NoneUnwrap == Panic("unwrap on None")
OutOfBounds == Panic("index out of bounds")
Todo == Panic("not yet implemented")

\* ---- the graph as one value ----
G == [nodes |-> nodes, edges |-> edges, adj |-> adj,
      curr_node |-> curr_node, curr_edge |-> curr_edge]

Outcome(g, r) == [g |-> g, r |-> r]

\* HashMap::insert and HashMap::remove
Insert(m, k, v) == [x \in (DOMAIN m) \cup {k} |-> IF x = k THEN v ELSE m[x]]
Remove(m, k) == [x \in (DOMAIN m) \ {k} |-> m[x]]

\* Vec indexing: adj[n] is in bounds iff n < adj.len()
InBounds(a, n) == n < Len(a)
At(a, n) == a[n + 1]
Push(a, n, e) == [a EXCEPT ![n + 1] = Append(@, e)]

\* iter().position(|&i| i == x): 0 when absent, else the first index (1-based)
Position(s, x) ==
  IF \E i \in 1..Len(s) : s[i] = x
  THEN CHOOSE i \in 1..Len(s) : s[i] = x /\ \A j \in 1..(i - 1) : s[j] # x
  ELSE 0

\* Vec::remove(i)
RemoveAt(s, i) == [j \in 1..(Len(s) - 1) |-> IF j < i THEN s[j] ELSE s[j + 1]]

\* number of entries over all adjacency lists
RECURSIVE Entries(_)
Entries(a) == IF a = <<>> THEN 0 ELSE Len(Head(a)) + Entries(Tail(a))

is_directed == directed

node(g, n) == IF n \in DOMAIN g.nodes THEN Ok(g.nodes[n]) ELSE NoneUnwrap

edge(g, e) == IF e \in DOMAIN g.edges THEN Ok(g.edges[e]) ELSE NoneUnwrap

\* edge_mut hands out &mut Edge<E>, the whole stored record; w is the record
\* the caller leaves behind through that reference
edge_mut(g, e, w) ==
  IF e \notin DOMAIN g.edges THEN Outcome(g, NoneUnwrap)
  ELSE Outcome([g EXCEPT !.edges[e] = w], Ok(w))

\* add_node returning the edge counter instead of the node counter
add_node_edge_counter(g, data) ==
  LET g1 == [g EXCEPT !.nodes = Insert(g.nodes, g.curr_node, data)]
      g2 == [g1 EXCEPT !.curr_node = g1.curr_node + 1]
  IN Outcome(g2, Ok(g2.curr_edge))

add_node(g, data) ==
  LET g1 == [g EXCEPT !.nodes = Insert(g.nodes, g.curr_node, data)]
      g2 == [g1 EXCEPT !.curr_node = g1.curr_node + 1]
  IN Outcome(g2, Ok(g2.curr_node))

add_edge(g, start, end, data) ==
  LET e == [start |-> start, end |-> end, index |-> g.curr_edge, data |-> data]
      g1 == [g EXCEPT !.edges = Insert(g.edges, g.curr_edge, e)]
  IN IF ~InBounds(g1.adj, start) THEN Outcome(g1, OutOfBounds)
     ELSE
       LET g2 == [g1 EXCEPT !.adj = Push(g1.adj, start, e.index)]
       IN IF is_directed
          THEN Outcome([g2 EXCEPT !.curr_edge = g2.curr_edge + 1], Ok(e.index))
          ELSE IF ~InBounds(g2.adj, end) THEN Outcome(g2, OutOfBounds)
          ELSE
            LET g3 == [g2 EXCEPT !.adj = Push(g2.adj, end, e.index)]
            IN Outcome([g3 EXCEPT !.curr_edge = g3.curr_edge + 1], Ok(e.index))

\* remove_edge handing the removed index back to the counter
remove_edge_recycle(g, e) ==
  IF e \notin DOMAIN g.edges THEN Outcome(g, NoneUnwrap)
  ELSE
    LET ed == g.edges[e]
        g1 == [g EXCEPT !.edges = Remove(g.edges, e)]
    IN IF ~InBounds(g1.adj, ed.start) THEN Outcome(g1, OutOfBounds)
       ELSE
         LET p1 == Position(At(g1.adj, ed.start), ed.index)
         IN IF p1 = 0 THEN Outcome(g1, NoneUnwrap)
            ELSE
              LET g2 == [g1 EXCEPT !.adj[ed.start + 1] = RemoveAt(@, p1)]
                  g3 == [g2 EXCEPT !.curr_edge = ed.index]
              IN IF is_directed THEN Outcome(g3, Ok(ed))
                 ELSE IF ~InBounds(g2.adj, ed.end) THEN Outcome(g2, OutOfBounds)
                 ELSE
                   LET p2 == Position(At(g2.adj, ed.end), ed.index)
                   IN IF p2 = 0 THEN Outcome(g2, NoneUnwrap)
                      ELSE Outcome([g3 EXCEPT !.adj[ed.end + 1] = RemoveAt(@, p2)],
                                   Ok(ed))

remove_edge(g, e) ==
  IF e \notin DOMAIN g.edges THEN Outcome(g, NoneUnwrap)
  ELSE
    LET ed == g.edges[e]
        g1 == [g EXCEPT !.edges = Remove(g.edges, e)]
    IN IF ~InBounds(g1.adj, ed.start) THEN Outcome(g1, OutOfBounds)
       ELSE
         LET p1 == Position(At(g1.adj, ed.start), ed.index)
         IN IF p1 = 0 THEN Outcome(g1, NoneUnwrap)
            ELSE
              LET g2 == [g1 EXCEPT !.adj[ed.start + 1] = RemoveAt(@, p1)]
              IN IF is_directed THEN Outcome(g2, Ok(ed))
                 ELSE IF ~InBounds(g2.adj, ed.end) THEN Outcome(g2, OutOfBounds)
                 ELSE
                   LET p2 == Position(At(g2.adj, ed.end), ed.index)
                   IN IF p2 = 0 THEN Outcome(g2, NoneUnwrap)
                      ELSE Outcome([g2 EXCEPT !.adj[ed.end + 1] = RemoveAt(@, p2)],
                                   Ok(ed))

\* the four traversal primitives are todo!() in ALGraph
edges_from(g, n) == Todo

edges_to(g, n) == Todo

edges_at(g, n) == Todo

edge_endpoints(g, e) == Todo

edge_start(g, e) ==
  LET r == edge_endpoints(g, e) IN IF r.ok THEN Ok(r.val[1]) ELSE r

edge_end(g, e) ==
  LET r == edge_endpoints(g, e) IN IF r.ok THEN Ok(r.val[2]) ELSE r

\* the items of a sequence
Range(s) == {s[i] : i \in 1..Len(s)}

\* Iterator::map over a sequence of handles with a closure f that may panic
MapIter(it, f) ==
  IF \E i \in 1..Len(it) : ~f[it[i]].ok
  THEN f[it[CHOOSE i \in 1..Len(it) : ~f[it[i]].ok]]
  ELSE Ok([i \in 1..Len(it) |-> f[it[i]].val])

\* the node of (start, end) that neighbors yields for n on an undirected graph
OtherEnd(n, se) == IF se[1] = n THEN se[2] ELSE se[1]

neighbors(g, n) ==
  IF is_directed
  THEN LET it == edges_from(g, n)
       IN IF ~it.ok THEN it
          ELSE MapIter(it.val, [e \in Range(it.val) |-> edge_start(g, e)])
  ELSE LET it == edges_at(g, n)
       IN IF ~it.ok THEN it
          ELSE LET ends == MapIter(it.val,
                                   [e \in Range(it.val) |-> edge_endpoints(g, e)])
               IN IF ~ends.ok THEN ends
                  ELSE Ok([i \in 1..Len(ends.val) |-> OtherEnd(n, ends.val[i])])

\* The source defines no constructor.  A graph is created empty: no nodes, no
\* edges, both counters 0.  No operation grows adj, so its length is the one
\* construction gave it; every length in 0..MaxAdj is explored, each list empty.
Init ==
  /\ nodes = <<>>
  /\ edges = <<>>
  /\ \E n \in 0..MaxAdj : adj = [i \in 1..n |-> <<>>]
  /\ curr_node = 0
  /\ curr_edge = 0
  /\ directed \in BOOLEAN
  /\ op = "new"
  /\ args = <<>>
  /\ ret = Ok(<<>>)
  /\ node_handles = <<>>
  /\ edge_handles = <<>>
  /\ removed = {}
  /\ muts = 0

\* the fields and the result after a call with outcome o
Apply(o) ==
  /\ nodes' = o.g.nodes
  /\ edges' = o.g.edges
  /\ adj' = o.g.adj
  /\ curr_node' = o.g.curr_node
  /\ curr_edge' = o.g.curr_edge
  /\ ret' = o.r
  /\ UNCHANGED directed

AddNode ==
  \E d \in NodeData :
    /\ curr_node < MaxNodes
    /\ LET o == add_node(G, d)
       IN /\ Apply(o)
          /\ node_handles' = Append(node_handles, o.r.val)
    /\ op' = "add_node"
    /\ args' = <<d>>
    /\ UNCHANGED <<edge_handles, removed, muts>>

AddEdge ==
  \E s \in NodeArgs, e \in NodeArgs, d \in EdgeData :
    /\ curr_edge < MaxEdges
    /\ LET o == add_edge(G, s, e, d)
       IN /\ Entries(o.g.adj) <= MaxEntries
          /\ Apply(o)
          /\ edge_handles' = IF o.r.ok THEN Append(edge_handles, o.r.val)
                             ELSE edge_handles
    /\ op' = "add_edge"
    /\ args' = <<s, e, d>>
    /\ UNCHANGED <<node_handles, removed, muts>>

RemoveEdge ==
  \E e \in EdgeArgs :
    /\ LET o == remove_edge(G, e)
       IN /\ Apply(o)
          /\ removed' = IF o.r.ok THEN removed \cup {e} ELSE removed
    /\ op' = "remove_edge"
    /\ args' = <<e>>
    /\ UNCHANGED <<node_handles, edge_handles, muts>>

Next == AddNode \/ AddEdge \/ RemoveEdge

Spec == Init /\ [][Next]_vars

\* the records a caller can write through edge_mut
EdgeRecords == [start : NodeArgs, end : NodeArgs, index : EdgeArgs, data : EdgeData]

EdgeMut ==
  \E e \in EdgeArgs, w \in EdgeRecords :
    /\ muts < MaxMuts
    /\ muts' = muts + 1
    /\ Apply(edge_mut(G, e, w))
    /\ op' = "edge_mut"
    /\ args' = <<e>>
    /\ UNCHANGED <<node_handles, edge_handles, removed>>

NextMut == Next \/ EdgeMut

\* the graph with edge_mut among the calls
SpecMut == Init /\ [][NextMut]_vars

\* ---- vocabulary of the properties ----
ReturnedNodes == Range(node_handles)
ReturnedEdges == Range(edge_handles)
Distinct(s) == \A i, j \in 1..Len(s) : i # j => s[i] # s[j]
\* the edge handles listed in the adjacency list of node n (none if adj has no such list)
AdjOf(a, n) == IF InBounds(a, n) THEN Range(At(a, n)) ELSE {}

\* C1: right after add_node(d) returns h, node(h) returns and yields exactly d.
C1_NodeOfReturnedHandle ==
  op = "add_node" =>
    /\ ret.ok
    /\ node(G, ret.val).ok
    /\ node(G, ret.val).val = args[1]

\* C2: add_edge(u, v, d) on handles returned by add_node returns h with
\* edge_endpoints(h) = (u, v) and edge(h).data = d.
C2_AddEdgeOnLiveNodes ==
  (op = "add_edge" /\ args[1] \in ReturnedNodes /\ args[2] \in ReturnedNodes) =>
    /\ ret.ok
    /\ edge_endpoints(G, ret.val).ok
    /\ edge_endpoints(G, ret.val).val = <<args[1], args[2]>>
    /\ edge(G, ret.val).ok
    /\ edge(G, ret.val).val.data = args[3]

\* a handle that is neither a key of the node table nor was returned by add_node
StaleNode(n) == n \notin DOMAIN nodes /\ n \notin ReturnedNodes

\* C3: add_edge with a start or end that is not a live node handle fails and
\* leaves nodes, edges, adj, curr_node and curr_edge as they were.
C3_AddEdgeStaleIsAtomic ==
  [][(op' = "add_edge" /\ (StaleNode(args'[1]) \/ StaleNode(args'[2]))) =>
       (~ret'.ok /\ UNCHANGED graph)]_vars

\* C4: for live u, v, add_edge(u, v, d) returns a handle h, and remove_edge(h)
\* called next returns start = u, end = v, data = d and leaves h in neither the
\* edge table nor the adjacency lists of u and v.
C4_RemovalRoundTrip ==
  [][/\ (op' = "add_edge" /\ args'[1] \in ReturnedNodes /\ args'[2] \in ReturnedNodes)
          => ret'.ok
     /\ (/\ op = "add_edge" /\ ret.ok
         /\ args[1] \in ReturnedNodes /\ args[2] \in ReturnedNodes
         /\ op' = "remove_edge" /\ args'[1] = ret.val)
          => /\ ret'.ok
             /\ ret'.val.start = args[1]
             /\ ret'.val.end = args[2]
             /\ ret'.val.data = args[3]
             /\ ret.val \notin DOMAIN edges'
             /\ ret.val \notin AdjOf(adj', args[1])
             /\ ret.val \notin AdjOf(adj', args[2])]_vars

\* C5: node and edge on a handle that is not live, and remove_edge on a handle
\* that was never issued or was already removed, fail and change nothing.
C5_StaleHandleFailsUnchanged ==
  /\ [](\A n \in NodeArgs \ DOMAIN nodes : ~node(G, n).ok)
  /\ [](\A e \in EdgeArgs \ DOMAIN edges : ~edge(G, e).ok)
  /\ [][(op' = "remove_edge"
          /\ (args'[1] \notin ReturnedEdges \/ args'[1] \in removed))
         => (~ret'.ok /\ UNCHANGED graph)]_vars

\* C6: the handles returned by add_node are pairwise distinct.
C6_NodeHandlesDistinct == Distinct(node_handles)

C6_Witness == op = "add_node" /\ Len(node_handles) >= 2

\* C7: the handles returned by add_edge are pairwise distinct, also across
\* removals, and curr_node and curr_edge never decrease.
C7_EdgeHandlesNeverRecycled ==
  /\ []Distinct(edge_handles)
  /\ [][curr_node' >= curr_node /\ curr_edge' >= curr_edge]_vars

C7_Witness ==
  /\ op = "add_edge" /\ ret.ok
  /\ removed # {}
  /\ Len(edge_handles) >= 2

\* C8: on a directed graph, after add_edge(u, v, d) returns h, h is in
\* edges_from(u), edges_to(v), edges_at(u) and edges_at(v), and not in
\* edges_from(v) unless u = v.
C8_DirectedMembership ==
  (directed /\ op = "add_edge" /\ ret.ok) =>
    LET u == args[1]
        v == args[2]
        h == ret.val
    IN /\ edges_from(G, u).ok /\ h \in Range(edges_from(G, u).val)
       /\ edges_to(G, v).ok /\ h \in Range(edges_to(G, v).val)
       /\ edges_at(G, u).ok /\ h \in Range(edges_at(G, u).val)
       /\ edges_at(G, v).ok /\ h \in Range(edges_at(G, v).val)
       /\ edges_from(G, v).ok
       /\ (u # v => h \notin Range(edges_from(G, v).val))

\* the ends of the edges of the table that start at n
Successors(n) == {edges[e].end : e \in {k \in DOMAIN edges : edges[k].start = n}}

\* C9: on a directed graph, neighbors(n) yields the far end of every edge
\* going out of n; after the single edge (u, v) is added, neighbors(u) yields v.
C9_DirectedNeighbors ==
  (directed /\ op = "add_edge" /\ ret.ok) =>
    /\ neighbors(G, args[1]).ok
    /\ Range(neighbors(G, args[1]).val) = Successors(args[1])

\* the other endpoints of the edges of the table incident to n
Adjacent(n) ==
  {OtherEnd(n, <<edges[e].start, edges[e].end>>) :
     e \in {k \in DOMAIN edges : edges[k].start = n \/ edges[k].end = n}}

\* C10: on an undirected graph, after every add_edge and remove_edge that
\* returns, neighbors(n) yields exactly the other endpoints of the edges
\* incident to n.
C10_UndirectedNeighbors ==
  (~directed /\ op \in {"add_edge", "remove_edge"} /\ ret.ok) =>
    \A n \in DOMAIN nodes :
      /\ neighbors(G, n).ok
      /\ Range(neighbors(G, n).val) = Adjacent(n)
\* number of occurrences of x in the sequence s
Count(s, x) == Cardinality({i \in 1..Len(s) : s[i] = x})

\* the entries of s other than x, in order
RECURSIVE Others(_, _)
Others(s, x) ==
  IF s = <<>> THEN <<>>
  ELSE IF Head(s) = x THEN Others(Tail(s), x)
       ELSE <<Head(s)>> \o Others(Tail(s), x)

\* C11: on an undirected graph, one remove_edge(h) of a self-loop h returned by
\* add_edge(u, u, d) leaves no occurrence of h in adj[u] and keeps every other
\* entry of adj[u].
C11_SelfLoopRemovedTwice ==
  [][(/\ ~directed
      /\ op' = "remove_edge" /\ ret'.ok
      /\ args'[1] \in ReturnedEdges
      /\ ret'.val.start = ret'.val.end
      /\ ret'.val.start \in DOMAIN nodes)
     => LET u == ret'.val.start
            h == args'[1]
        IN /\ Count(At(adj', u), h) = 0
           /\ Others(At(adj', u), h) = Others(At(adj, u), h)]_vars

\* nodes() and edges(): the keys of the two tables, collected
nodes_of(g) == Ok(DOMAIN g.nodes)

edges_of(g) == Ok(DOMAIN g.edges)

\* C12: nodes() is the set of handles returned by add_node, and edges() is the
\* set of handles returned by add_edge less those a remove_edge returned for.
C12_NodesAndEdgesAreTheLiveHandles ==
  /\ nodes_of(G).val = ReturnedNodes
  /\ edges_of(G).val = ReturnedEdges \ removed

\* C13: whenever a call has returned, every edge index in an adjacency list
\* is a key of the edge table.
C13_AdjEntriesAreEdgeKeys ==
  ret.ok => \A n \in 0..(Len(adj) - 1) : Range(At(adj, n)) \subseteq DOMAIN edges
\* occurrences of edge index e in the adjacency list of node n (0 if adj has no such list)
CountAt(a, n, e) == IF InBounds(a, n) THEN Count(At(a, n), e) ELSE 0

\* the nodes other than those of S whose adjacency list holds e
ListedOutside(a, S, e) == {n \in 0..(Len(a) - 1) : n \notin S /\ CountAt(a, n, e) > 0}

\* C14: on a directed graph, whenever a call has returned, each edge of the
\* table with start = u is exactly once in adj[u] and in no other list.
C14_DirectedEdgeListedOnceAtStart ==
  (directed /\ ret.ok) =>
    \A e \in DOMAIN edges :
      /\ CountAt(adj, edges[e].start, e) = 1
      /\ ListedOutside(adj, {edges[e].start}, e) = {}

\* C15: on an undirected graph, whenever a call has returned, each edge of the
\* table is once in adj[start] and once in adj[end] when start # end, twice in
\* adj[u] when start = end = u, and in no other list.
C15_UndirectedEdgeListedAtBothEnds ==
  (~directed /\ ret.ok) =>
    \A e \in DOMAIN edges :
      LET u == edges[e].start
          v == edges[e].end
      IN /\ u # v => (CountAt(adj, u, e) = 1 /\ CountAt(adj, v, e) = 1)
         /\ u = v => CountAt(adj, u, e) = 2
         /\ ListedOutside(adj, {u, v}, e) = {}

\* C16: whenever a call has returned, every record of the edge table has a
\* start and an end that are keys of the node table.
C16_NoDanglingEdges ==
  ret.ok =>
    \A e \in DOMAIN edges :
      edges[e].start \in DOMAIN nodes /\ edges[e].end \in DOMAIN nodes

\* C18: after every add_node, every key of the node table is a valid index
\* into adj.
C18_AdjCoversEveryNode ==
  op = "add_node" => \A n \in DOMAIN nodes : InBounds(adj, n)
\* C17: remove_edge(e) on a key e of the edge table, in any state reached by
\* add_node, add_edge, remove_edge and edge_mut, returns with e gone from the
\* edge table and from every adjacency list; it never fails with the record
\* removed while an adjacency entry for e remains.
C17_RemoveEdgeAllOrNothing ==
  [][(op' = "remove_edge" /\ args'[1] \in DOMAIN edges)
     => /\ ret'.ok
        /\ args'[1] \notin DOMAIN edges'
        /\ \A n \in 0..(Len(adj') - 1) : CountAt(adj', n, args'[1]) = 0]_vars

\* C19: a remove_edge(e) that returns leaves the node table, both counters and
\* every other edge record as they were, and in every adjacency list the
\* entries other than e keep their membership and relative order.
C19_RemoveEdgeFrame ==
  [][(op' = "remove_edge" /\ ret'.ok)
     => LET e == args'[1]
        IN /\ nodes' = nodes
           /\ curr_node' = curr_node
           /\ curr_edge' = curr_edge
           /\ DOMAIN edges' = DOMAIN edges \ {e}
           /\ \A k \in DOMAIN edges' : edges'[k] = edges[k]
           /\ Len(adj') = Len(adj)
           /\ \A n \in 0..(Len(adj) - 1) :
                Others(At(adj', n), e) = Others(At(adj, n), e)]_vars
====
